---- MODULE Spec2Model ----
(***************************************************************************)
(* Model of the configuration manager Xnippy (src/xnippy/main.py): the     *)
(* three candidate configuration directories, the in-memory config, the    *)
(* fetchers derived from it, and the operations reload_config,             *)
(* create_confnig and delete_confnig.                                      *)
(*                                                                         *)
(* A configuration file is a text: a sequence of lines.  A line is a pair  *)
(* <<key, value>>: a comment, a line YAML cannot parse, the "null"         *)
(* document, or the entry plugin.repo.  A document (what yaml.safe_load    *)
(* returns) is a set of <<key, value>> entries.                            *)
(***************************************************************************)
EXTENDS Integers, Sequences, FiniteSets, TLC

\* Repository coordinates a user-written config file may name: 0..NumRepos.
NumRepos == 1

Repos == 0..NumRepos

Comment == <<"#", 0>>
Broken == <<"!", 0>>
NullLine == <<"null", 0>>
Entry(r) == <<"plugin.repo", r>>

\* The texts a user writes into a config file by hand.
UserTexts ==
    {<<Entry(r)>> : r \in Repos} \cup {<<Comment, Entry(r)>> : r \in Repos}
        \cup {<<Comment>>, <<Broken>>}

\* The config file shipped with Xnippy itself (yaml/config.yaml).
BundledText == <<Comment, Entry(0)>>

\* The config file a host package may ship in its default directory.
ExampleText == <<Comment, Entry(1)>>

StorageMode == {"local", "global"}

compatible_snippets == <<"plugin">>

\* yaml.safe_load: fails on a text it cannot parse; comments and the null
\* document contribute no entry; of two entries with one key the later wins.
safe_load(text) ==
    IF \E i \in DOMAIN text : text[i] = Broken
    THEN [ok |-> FALSE, doc |-> {}]
    ELSE [ok |-> TRUE,
          doc |-> {text[i] : i \in {j \in DOMAIN text :
                        /\ text[j][1] = "plugin.repo"
                        /\ \A k \in DOMAIN text :
                              (k > j) => (text[k][1] # text[j][1])}}]

\* yaml.safe_dump(doc, sort_keys=False): one line per entry, no comments; the
\* empty document is written as the null document.
safe_dump(doc) ==
    IF doc = {} THEN <<NullLine>> ELSE <<CHOOSE e \in doc : TRUE>>

NoDir == [exists |-> FALSE, hasFile |-> FALSE, text |-> <<>>, sub |-> FALSE]

VARIABLES
    fs,        \* the directories: fs[d] for d in local, global, default
    config,    \* Xnippy.config: the in-memory document
    fetchers,  \* Xnippy._fetchers: a set of fetcher records, one per mode
    warned,    \* the warnings emitted by the most recent call
    lastOp,    \* the most recent call: its arguments and how it ended
    prevOp,    \* the call before it
    snip,      \* one PlugIn instance: its attributes
    data,      \* PlugIn._data: the files staged in memory
    disk,      \* the files under <dest>/<name>/ of a disk staging
    pcall      \* the most recent PlugIn call: arguments, effects, how it ended

vars == <<fs, config, fetchers, warned, lastOp, prevOp>>

pvars == <<snip, data, disk, pcall>>

allvars == <<fs, config, fetchers, warned, lastOp, prevOp, snip, data, disk, pcall>>

\* A manifest document: the keys it has and their values.
Manifest(keys, type, name, version, subtype, source, dependencies) ==
    [keys |-> keys, type |-> type, name |-> name, version |-> version,
     subtype |-> subtype, source |-> source, dependencies |-> dependencies]

NoManifest == Manifest({}, "", "", <<>>, "", <<>>, <<>>)

\* No PlugIn instance yet; an attribute that was never assigned is "unset"
\* (<<>> for the version).
NoSnippet ==
    [state |-> "new", remote |-> FALSE, files |-> {}, has_manifest |-> FALSE,
     manifest |-> NoManifest, is_valid |-> "unset", name |-> "unset",
     version |-> <<>>, type |-> "unset", activated |-> "unset",
     deps_tested |-> FALSE]

\* A PlugIn call: what it was given, what it did and how it ended.
PCall(op, dest, force, skip, fits, raised, ret, downloads, installs, called, warns) ==
    [op |-> op, dest |-> dest, force |-> force, skip |-> skip, fits |-> fits,
     raised |-> raised, ret |-> ret, downloads |-> downloads,
     installs |-> installs, called |-> called, warns |-> warns]

NoCall == PCall("none", FALSE, FALSE, FALSE, FALSE, "none", "None", <<>>, <<>>, FALSE, <<>>)

NoPlugIn == snip = NoSnippet /\ data = {} /\ disk = {} /\ pcall = NoCall

config_created_by_directory(f) ==
    LET checked == SelectSeq(<<"global", "local">>, LAMBDA loc : f[loc].exists)
    IN  IF Len(checked) = 1 THEN [kind |-> "str", val |-> checked]
        ELSE IF checked # <<>> THEN [kind |-> "list", val |-> checked]
        ELSE [kind |-> "bool", val |-> <<>>]

\* Xnippy.config_created: False, one scope name, or the list of both.
config_created(f) ==
    LET checked == SelectSeq(<<"global", "local">>, LAMBDA loc : f[loc].hasFile)
    IN  IF Len(checked) = 1 THEN [kind |-> "str", val |-> checked]
        ELSE IF checked # <<>> THEN [kind |-> "list", val |-> checked]
        ELSE [kind |-> "bool", val |-> <<>>]

config_dir_prefers_global(f) ==
    LET created == config_created(f)
    IN  IF created.kind = "list" THEN "global"
        ELSE IF created.kind = "str"
             THEN (IF created.val = <<"local">> THEN "local" ELSE "global")
        ELSE "default"

config_dir_swapped(f) ==
    LET created == config_created(f)
    IN  IF created.kind = "list" THEN "local"
        ELSE IF created.kind = "str"
             THEN (IF created.val = <<"local">> THEN "global" ELSE "local")
        ELSE "default"

\* Xnippy.config_dir
config_dir(f) ==
    LET created == config_created(f)
    IN  IF created.kind = "list" THEN "local"
        ELSE IF created.kind = "str"
             THEN (IF created.val = <<"local">> THEN "local" ELSE "global")
        ELSE "default"

check_dir_reversed(f, mode) ==
    LET truthy == config_created(f).kind # "bool"
        d == config_dir(f)
    IN  [path  |-> IF ~truthy THEN <<d, mode>> ELSE <<>>,
         cache |-> truthy,
         fs    |-> IF ~truthy /\ ~f[d].sub THEN [f EXCEPT ![d].sub = TRUE] ELSE f]

\* Xnippy._check_dir: the snippet directory of the authoritative scope (made
\* when absent) and the cache flag.
check_dir(f, mode) ==
    LET truthy == config_created(f).kind # "bool"
        d == config_dir(f)
    IN  [path  |-> IF truthy THEN <<d, mode>> ELSE <<>>,
         cache |-> ~truthy,
         fs    |-> IF truthy /\ ~f[d].sub THEN [f EXCEPT ![d].sub = TRUE] ELSE f]

\* Xnippy._get_snippet_fetcher: config['plugin']['repo'] is read first and
\* raises when the document has no such entry.
get_snippet_fetcher(f, cfg, mode) ==
    IF ~\E e \in cfg : e[1] = "plugin.repo"
    THEN [raised |-> "KeyError", fetcher |-> {}, fs |-> f]
    ELSE LET p == check_dir(f, mode)
             e == CHOOSE x \in cfg : x[1] = "plugin.repo"
         IN  [raised  |-> "none",
              fetcher |-> {[repos |-> e[2], mode |-> mode,
                            path |-> p.path, cache |-> p.cache]},
              fs      |-> p.fs]

\* Xnippy._reload_fetchers over modes[i..]: each mode's fetcher is replaced.
RECURSIVE reload_fetchers_from(_, _, _, _)
reload_fetchers_from(f, cfg, fet, i) ==
    IF i > Len(compatible_snippets) THEN [raised |-> "none", fetchers |-> fet, fs |-> f]
    ELSE LET mode == compatible_snippets[i]
             g == get_snippet_fetcher(f, cfg, mode)
         IN  IF g.raised # "none"
             THEN [raised |-> g.raised, fetchers |-> fet, fs |-> g.fs]
             ELSE reload_fetchers_from(g.fs, cfg,
                      {x \in fet : x.mode # mode} \cup g.fetcher, i + 1)

reload_fetchers(f, cfg, fet) == reload_fetchers_from(f, cfg, fet, 1)

missing_config_or(f) == ~f[config_dir(f)].hasFile \/ config_dir(f) = "default"

missing_config_mutant(f) == ~f[config_dir(f)].hasFile /\ config_dir(f) # "default"

\* The test of reload_config for "no config file, prepare the default one".
missing_config(f) == ~f[config_dir(f)].hasFile /\ config_dir(f) = "default"

\* Xnippy.reload_config: open() raises on an absent file and safe_load on a text
\* it cannot parse, both before config is assigned.
reload_config(f, cfg, fet) ==
    LET d == config_dir(f)
        missing == missing_config(f)
        w == IF missing THEN <<"UserWarning">> ELSE <<>>
        text == IF missing THEN BundledText ELSE f[d].text
        parsed == safe_load(text)
        loaded == IF missing THEN "bundled" ELSE d
    IN  IF ~missing /\ ~f[d].hasFile
        THEN [raised |-> "FileNotFoundError", config |-> cfg, fetchers |-> fet,
              fs |-> f, warned |-> w, loaded |-> loaded]
        ELSE IF ~parsed.ok
        THEN [raised |-> "YAMLError", config |-> cfg, fetchers |-> fet,
              fs |-> f, warned |-> w, loaded |-> loaded]
        ELSE LET r == reload_fetchers(f, parsed.doc, fet)
             IN  [raised |-> r.raised, config |-> parsed.doc,
                  fetchers |-> r.fetchers, fs |-> r.fs, warned |-> w,
                  loaded |-> loaded]

\* WarnRaiser.config_exist_when_create: the kind of warning it emits.
config_exist_when_create == "FileExistsWarning"

create_confnig_keeps(f, cfg, target, force) ==
    LET made == [f EXCEPT ![target].exists = TRUE]
    IN  IF made[target].hasFile
        THEN [fs |-> made, warned |-> <<config_exist_when_create>>, ret |-> "False"]
        ELSE [fs |-> [made EXCEPT ![target].hasFile = TRUE,
                                  ![target].text = safe_dump(cfg)],
              warned |-> <<>>, ret |-> "None"]

create_confnig_overwrites(f, cfg, target, force) ==
    [fs |-> [f EXCEPT ![target].exists = TRUE, ![target].hasFile = TRUE,
                      ![target].text = safe_dump(cfg)],
     warned |-> <<>>, ret |-> "None"]

\* Xnippy.create_confnig
create_confnig(f, cfg, target, force) ==
    LET made == [f EXCEPT ![target].exists = TRUE]
    IN  IF made[target].hasFile /\ ~force
        THEN [fs |-> made, warned |-> <<config_exist_when_create>>, ret |-> "False"]
        ELSE [fs |-> [made EXCEPT ![target].hasFile = TRUE,
                                  ![target].text = safe_dump(cfg)],
              warned |-> <<>>, ret |-> "None"]

delete_confnig_file_only(f, target, yes, answer) ==
    LET gone == [f EXCEPT ![target].hasFile = FALSE, ![target].text = <<>>]
    IN  IF f[target].exists
        THEN IF yes THEN [fs |-> gone, prompted |-> FALSE]
             ELSE IF answer THEN [fs |-> gone, prompted |-> TRUE]
             ELSE [fs |-> f, prompted |-> TRUE]
        ELSE [fs |-> f, prompted |-> FALSE]

delete_confnig_unconfirmed(f, target, yes, answer) ==
    IF f[target].exists
    THEN [fs |-> [f EXCEPT ![target] = NoDir], prompted |-> ~yes]
    ELSE [fs |-> f, prompted |-> FALSE]

\* Xnippy.delete_confnig: answer is what the yes/no prompt returns when asked.
delete_confnig(f, target, yes, answer) ==
    IF f[target].exists
    THEN IF yes THEN [fs |-> [f EXCEPT ![target] = NoDir], prompted |-> FALSE]
         ELSE IF answer THEN [fs |-> [f EXCEPT ![target] = NoDir], prompted |-> TRUE]
         ELSE [fs |-> f, prompted |-> TRUE]
    ELSE [fs |-> f, prompted |-> FALSE]

\* A call: flag is force (create) or yes (delete); existed is what the call's
\* exists() test found; answer is the prompt's answer when it was asked.
Op(op, target, flag, existed, answer, ret, raised, loaded) ==
    [op |-> op, target |-> target, flag |-> flag, existed |-> existed,
     answer |-> answer, ret |-> ret, raised |-> raised, loaded |-> loaded]

NoOp == Op("none", "none", FALSE, FALSE, FALSE, "None", "none", "none")

\* The filesystem a manager is constructed in: each of the local and global
\* directories is absent, empty, or holds a hand-written config file.
InitDirs ==
    {NoDir, [exists |-> TRUE, hasFile |-> FALSE, text |-> <<>>, sub |-> FALSE]}
        \cup {[exists |-> TRUE, hasFile |-> TRUE, text |-> t, sub |-> FALSE] :
                    t \in UserTexts}

DefaultDirs ==
    {[exists |-> TRUE, hasFile |-> FALSE, text |-> <<>>, sub |-> FALSE],
     [exists |-> TRUE, hasFile |-> TRUE, text |-> ExampleText, sub |-> FALSE]}

\* Xnippy.__init__: the paths are set and reload_config runs; a manager exists
\* only when that call returned.
Init ==
    \E l \in InitDirs, g \in InitDirs, d \in DefaultDirs :
        LET f == [local |-> l, global |-> g, default |-> d]
            r == reload_config(f, {}, {})
        IN  /\ r.raised = "none"
            /\ fs = r.fs
            /\ config = r.config
            /\ fetchers = r.fetchers
            /\ warned = r.warned
            /\ lastOp = Op("init", "none", FALSE, FALSE, FALSE, "None", "none", r.loaded)
            /\ prevOp = NoOp
            /\ NoPlugIn

ReloadConfig ==
    LET r == reload_config(fs, config, fetchers)
    IN  /\ fs' = r.fs
        /\ config' = r.config
        /\ fetchers' = r.fetchers
        /\ warned' = r.warned
        /\ lastOp' = Op("reload", "none", FALSE, FALSE, FALSE,
                        IF r.raised = "none" THEN "None" ELSE "raise",
                        r.raised, r.loaded)
        /\ prevOp' = lastOp
        /\ UNCHANGED pvars

CreateConfig ==
    \E target \in StorageMode, force \in BOOLEAN :
        LET r == create_confnig(fs, config, target, force)
        IN  /\ fs' = r.fs
            /\ warned' = r.warned
            /\ lastOp' = Op("create", target, force, fs[target].hasFile, FALSE,
                            r.ret, "none", "none")
            /\ prevOp' = lastOp
            /\ UNCHANGED <<config, fetchers, snip, data, disk, pcall>>

DeleteConfig ==
    \E target \in StorageMode, yes \in BOOLEAN, answer \in BOOLEAN :
        LET r == delete_confnig(fs, target, yes, answer)
        IN  /\ fs' = r.fs
            /\ warned' = <<>>
            /\ lastOp' = Op("delete", target, yes, fs[target].exists,
                            r.prompted /\ answer, "None", "none", "none")
            /\ prevOp' = lastOp
            /\ UNCHANGED <<config, fetchers, snip, data, disk, pcall>>

Next ==
    \/ ReloadConfig
    \/ CreateConfig
    \/ DeleteConfig

Spec == Init /\ [][Next]_allvars

----------------------------------------------------------------------------
NoConfigAnywhere(f) ==
    ~f["local"].hasFile /\ ~f["global"].hasFile /\ ~f["default"].hasFile

BundledDefault == safe_load(BundledText).doc

Wrote(o) == o.op = "create" /\ o.ret # "False"

\* C1: when no config file exists in the local, the global or the default
\* directory, reload_config (run by the constructor too) emits exactly one
\* warning and leaves config equal to the bundled default document.
C1_ReloadFallsBackToBundled ==
    /\ (lastOp.op = "init" /\ NoConfigAnywhere(fs))
            => (Len(warned) = 1 /\ config = BundledDefault)
    /\ [][(lastOp'.op = "reload" /\ NoConfigAnywhere(fs))
            => (Len(warned') = 1 /\ config' = BundledDefault)]_vars

\* A reload that fell back to the bundled default after the only config
\* directory had been deleted.
C1_Witness ==
    /\ lastOp.op = "reload" /\ lastOp.loaded = "bundled"
    /\ prevOp.op = "delete" /\ prevOp.existed
    /\ NoConfigAnywhere(fs)
    /\ warned = <<"UserWarning">>
    /\ config = BundledDefault

\* C2: with no global config file, after a create_confnig('local') that wrote
\* the file config_created is 'local'; a reload_config that follows finds the
\* local directory authoritative and loads the local file, which holds the
\* document that was written, whatever the default directory holds.
C2_CreateLocalThenReload ==
    [][/\ (Wrote(lastOp') /\ lastOp'.target = "local" /\ ~fs["global"].hasFile)
            => config_created(fs') = [kind |-> "str", val |-> <<"local">>]
       /\ (/\ Wrote(lastOp) /\ lastOp.target = "local" /\ ~fs["global"].hasFile
           /\ lastOp'.op = "reload")
            => /\ config_dir(fs) = "local" /\ config_dir(fs') = "local"
               /\ lastOp'.loaded = "local"
               /\ config' = safe_load(fs["local"].text).doc
               /\ config' = config]_vars

\* A reload of the local file right after create_confnig('local') wrote it, in
\* a default directory that holds a config file of its own.
C2_Witness ==
    /\ lastOp.op = "reload" /\ lastOp.loaded = "local"
    /\ Wrote(prevOp) /\ prevOp.target = "local" /\ ~prevOp.existed
    /\ ~fs["global"].hasFile /\ fs["default"].hasFile
    /\ config_created(fs).val = <<"local">>

\* C3: create_confnig(scope, force=False) on a scope whose config file exists
\* returns False, emits one FileExists warning and changes nothing on disk; so
\* does the second of two consecutive non-forced calls on one scope.
C3_CreateRefusesExisting ==
    [][(/\ lastOp'.op = "create" /\ ~lastOp'.flag
        /\ \/ fs[lastOp'.target].hasFile
           \/ (lastOp.op = "create" /\ ~lastOp.flag
                    /\ lastOp.target = lastOp'.target))
            => /\ lastOp'.ret = "False"
               /\ warned' = <<"FileExistsWarning">>
               /\ fs' = fs]_vars

\* The second of two consecutive non-forced calls was refused and the file,
\* written by the first from a config, is still on disk.
C3_Witness ==
    /\ lastOp.op = "create" /\ ~lastOp.flag /\ lastOp.ret = "False"
    /\ prevOp.op = "create" /\ ~prevOp.flag /\ prevOp.target = lastOp.target
    /\ Wrote(prevOp)
    /\ fs[lastOp.target].hasFile
    /\ warned = <<"FileExistsWarning">>

\* C4 (as claimed): create_confnig returns True on every call that writes the
\* config file, that is when the file was absent or force is set.
C4_CreateReturnsTrue ==
    [][(lastOp'.op = "create" /\ (~fs[lastOp'.target].hasFile \/ lastOp'.flag))
            => lastOp'.ret = "True"]_vars

\* C5: create_confnig(scope, force=True) on a scope whose config file exists
\* replaces the file: afterwards the document on disk is the in-memory config,
\* and config itself is unchanged.
C5_ForcedCreateReplaces ==
    [][(lastOp'.op = "create" /\ lastOp'.flag /\ fs[lastOp'.target].hasFile)
            => /\ fs'[lastOp'.target].hasFile
               /\ fs'[lastOp'.target].text = safe_dump(config)
               /\ safe_load(fs'[lastOp'.target].text).ok
               /\ safe_load(fs'[lastOp'.target].text).doc = config'
               /\ config' = config]_vars

\* A forced create that found the global file in place while the manager's
\* config had been loaded from the local one, and left the document on disk.
C5_Witness ==
    /\ lastOp.op = "create" /\ lastOp.flag /\ lastOp.existed
    /\ lastOp.target = "global"
    /\ prevOp.op = "init" /\ prevOp.loaded = "local"
    /\ safe_load(fs["global"].text).doc = config
    /\ config # {}

\* C6: delete_confnig('local', yes=True) on an existing local scope removes the
\* whole local directory and leaves the global one alone; config_created then
\* is 'global' when the global config file exists and False otherwise.
C6_DeleteLocalRemovesDirectory ==
    [][(/\ lastOp'.op = "delete" /\ lastOp'.target = "local" /\ lastOp'.flag
        /\ fs["local"].exists)
            => /\ fs'["local"] = NoDir
               /\ fs'["global"] = fs["global"]
               /\ fs'["default"] = fs["default"]
               /\ config_created(fs') =
                     IF fs["global"].hasFile
                     THEN [kind |-> "str", val |-> <<"global">>]
                     ELSE [kind |-> "bool", val |-> <<>>]]_vars

\* A confirmed delete of a local scope that held a config file and a snippet
\* directory, with the global config file still present.
C6_Witness ==
    /\ lastOp.op = "delete" /\ lastOp.target = "local" /\ lastOp.flag
    /\ lastOp.existed
    /\ prevOp.op = "init" /\ prevOp.loaded = "local"
    /\ fs["local"] = NoDir
    /\ fs["global"].hasFile
    /\ config_created(fs).val = <<"global">>

\* C7 (as claimed): delete_confnig('local', yes=True) on a manager whose local
\* config file exists, with no global config file and none in the default
\* directory, emits exactly one warning.
C7_DeleteWarnsOnce ==
    [][(/\ lastOp'.op = "delete" /\ lastOp'.target = "local" /\ lastOp'.flag
        /\ fs["local"].hasFile
        /\ ~fs["global"].hasFile /\ ~fs["default"].hasFile)
            => Len(warned') = 1]_vars

\* C8: delete_confnig(scope, yes=False) deletes the scope directory exactly
\* when the directory exists and the prompt answers yes; otherwise (the answer
\* is no, or there is no directory) nothing on disk changes and nothing is
\* raised; the prompt is asked only for a directory that exists.
C8_DeleteNeedsConfirmation ==
    [][(lastOp'.op = "delete" /\ ~lastOp'.flag)
            => LET t == lastOp'.target
               IN  /\ (fs[t].exists /\ lastOp'.answer)
                          => fs' = [fs EXCEPT ![t] = NoDir]
                   /\ ~(fs[t].exists /\ lastOp'.answer) => fs' = fs
                   /\ lastOp'.answer => fs[t].exists
                   /\ lastOp'.raised = "none"
                   /\ config' = config]_vars

\* An unconfirmed delete whose prompt was answered no: the local directory and
\* its config file are still there.
C8_Witness ==
    /\ lastOp.op = "delete" /\ ~lastOp.flag /\ lastOp.existed /\ ~lastOp.answer
    /\ lastOp.target = "local"
    /\ fs["local"].exists /\ fs["local"].hasFile

\* C9: in every filesystem state config_dir is the local directory when the
\* local config file exists, the global one when only the global file exists
\* and the default one when neither does; config_created is 'local', the list
\* of both, 'global' or False accordingly. Both are functions of the files as
\* they are now, not of what the last reload saw.
C9_ScopeResolution ==
    LET l == fs["local"].hasFile
        g == fs["global"].hasFile
    IN  /\ config_dir(fs) = IF l THEN "local" ELSE IF g THEN "global" ELSE "default"
        /\ config_created(fs) =
              IF l /\ g THEN [kind |-> "list", val |-> <<"global", "local">>]
              ELSE IF l THEN [kind |-> "str", val |-> <<"local">>]
              ELSE IF g THEN [kind |-> "str", val |-> <<"global">>]
              ELSE [kind |-> "bool", val |-> <<>>]

\* The manager loaded its config from the global file; create_confnig('local')
\* then made both files exist and, with no reload, config_dir is the local one.
C9_Witness ==
    /\ prevOp.op = "init" /\ prevOp.loaded = "global"
    /\ Wrote(lastOp) /\ lastOp.target = "local"
    /\ fs["local"].hasFile /\ fs["global"].hasFile
    /\ config_dir(fs) = "local"
    /\ config_created(fs).kind = "list"

\* C10 (as claimed): with both the local and the global config file present,
\* reload_config emits a notification of the ambiguity and loads the local file.
C10_ReloadNotifiesAmbiguity ==
    [][(lastOp'.op = "reload" /\ fs["local"].hasFile /\ fs["global"].hasFile)
            => (Len(warned') >= 1 /\ lastOp'.loaded = "local")]_vars

\* C10 (amended): with both config files present, reload_config emits no
\* notification and loads the local file; the ambiguity shows only in
\* config_created, which is the list of both scopes.
C10_ReloadPrefersLocalSilently ==
    [][(lastOp'.op = "reload" /\ fs["local"].hasFile /\ fs["global"].hasFile)
            => /\ warned' = <<>>
               /\ lastOp'.loaded = "local"
               /\ config_created(fs).kind = "list"
               /\ safe_load(fs["local"].text).ok
                      => config' = safe_load(fs["local"].text).doc]_vars

\* A reload with both files present, holding different documents: the local
\* one was loaded and nothing was warned.
C10_Witness ==
    /\ lastOp.op = "reload" /\ lastOp.loaded = "local" /\ lastOp.raised = "none"
    /\ fs["local"].hasFile /\ fs["global"].hasFile
    /\ safe_load(fs["global"].text).doc # safe_load(fs["local"].text).doc
    /\ config = safe_load(fs["local"].text).doc
    /\ warned = <<>>

\* C11: when the config file of the authoritative directory exists (local,
\* global or default), reload_config opens that file, does not substitute the
\* bundled default and emits no warning; when the file parses, config is its
\* document. So a manager whose default directory holds a config file has
\* that file's document.
C11_ReloadLoadsPresentFile ==
    /\ (lastOp.op = "init" /\ fs[config_dir(fs)].hasFile)
            => /\ lastOp.loaded = config_dir(fs)
               /\ warned = <<>>
               /\ config = safe_load(fs[config_dir(fs)].text).doc
    /\ [][(lastOp'.op = "reload" /\ fs[config_dir(fs)].hasFile)
            => /\ lastOp'.loaded = config_dir(fs)
               /\ lastOp'.loaded # "bundled"
               /\ warned' = <<>>
               /\ safe_load(fs[config_dir(fs)].text).ok
                      => config' = safe_load(fs[config_dir(fs)].text).doc]_vars

\* A manager constructed where only the default directory holds a config
\* file: its config is that file's document and differs from the bundled one.
C11_Witness ==
    /\ lastOp.op = "init" /\ lastOp.loaded = "default"
    /\ fs["default"].hasFile
    /\ config = safe_load(ExampleText).doc
    /\ config # BundledDefault
    /\ warned = <<>>

FetcherOf(mode) == {x \in fetchers : x.mode = mode}

\* C12: right after a reload_config that returned (the constructor's too) the
\* manager holds exactly one fetcher per supported category, built from the
\* config just loaded, with storage (config_dir/<category>, cache=False) when
\* a local or global config file exists and (None, cache=True) otherwise.
C12_FetchersAfterReload ==
    (lastOp.op \in {"init", "reload"} /\ lastOp.raised = "none")
        => /\ Cardinality(fetchers) = Len(compatible_snippets)
           /\ \A i \in DOMAIN compatible_snippets :
                 LET mode == compatible_snippets[i]
                     scoped == fs["local"].hasFile \/ fs["global"].hasFile
                 IN  /\ Cardinality(FetcherOf(mode)) = 1
                     /\ \A x \in FetcherOf(mode) :
                           /\ Entry(x.repos) \in config
                           /\ x.path = IF scoped THEN <<config_dir(fs), mode>>
                                       ELSE <<>>
                           /\ x.cache = ~scoped
                           /\ scoped => fs[config_dir(fs)].sub

\* A reload after the local directory was deleted: the fetcher that pointed
\* into the local directory was replaced by one that stages in memory.
C12_Witness ==
    /\ lastOp.op = "reload" /\ lastOp.raised = "none" /\ lastOp.loaded = "bundled"
    /\ prevOp.op = "delete" /\ prevOp.existed /\ prevOp.target = "local"
    /\ fetchers = {[repos |-> 0, mode |-> "plugin", path |-> <<>>, cache |-> TRUE]}

----------------------------------------------------------------------------
(***************************************************************************)
(* PlugIn (src/xnippy/snippet/plugin.py).  A string the code matches with  *)
(* a regular expression is a sequence of characters; a file name the code  *)
(* only compares is a sequence too, "manifest.yaml" and "README.md" being  *)
(* one element each.                                                       *)
(***************************************************************************)
Letters == {"m", "u", "r", "g", "n", "p", "y"}
Digits == {"1", "2"}

ManifestYaml == <<"manifest.yaml">>
Readme == <<"README.md">>
MainPy == <<"m", ".", "p", "y">>
UtilPy == <<"u", ".", "p", "y">>

\* The files maps a ContentIndex may hold (name -> location; the location is
\* the name here).
Contents ==
    {{}, {ManifestYaml}, {MainPy}, {ManifestYaml, MainPy},
     {ManifestYaml, MainPy, Readme}, {ManifestYaml, MainPy, UtilPy}}

\* str.endswith('.py')
endswith_py(f) ==
    Len(f) >= 3 /\ f[Len(f) - 2] = "." /\ f[Len(f) - 1] = "p" /\ f[Len(f)] = "y"

\* PlugIn._get_module_files
get_module_files(files) == {f \in files : endswith_py(f)}

\* Source entries: "m.py:rn", "u.py:gn", "m.py", "README.md".
SrcMainRn == MainPy \o <<":", "r", "n">>
SrcUtilGn == UtilPy \o <<":", "g", "n">>

Sources == {<<SrcMainRn>>, <<SrcMainRn, SrcUtilGn>>, <<MainPy>>, <<Readme>>}

\* Dependency strings: "np>=1.2", "np", "n-p==1", "np <2", "np>=".
DepNpGe == <<"n", "p", ">", "=", "1", ".", "2">>
DepNp == <<"n", "p">>
DepHyphen == <<"n", "-", "p", "=", "=", "1">>
DepNpLt == <<"n", "p", " ", "<", "2">>
DepNoVersion == <<"n", "p", ">", "=">>

DepLists ==
    {<<>>, <<DepNpGe>>, <<DepNp, DepNpGe>>, <<DepHyphen, DepNpLt, DepNoVersion>>}

VersionGood == <<"1", ".", "2">>
VersionBad == <<"n", ".", "p">>

ManifestKeys == {"type", "name", "version", "subtype", "source", "dependencies"}

GoodManifest(src, deps) ==
    Manifest(ManifestKeys, "plugin", "nm", VersionGood, "sub", src, deps)

\* The manifests a manifest.yaml may hold: a complete one with any source and
\* dependency list, and ones with a key missing or a value off.
Manifests ==
    {GoodManifest(src, <<DepNpGe>>) : src \in Sources}
    \cup {GoodManifest(<<SrcMainRn>>, deps) : deps \in DepLists}
    \cup {[GoodManifest(<<SrcMainRn>>, <<DepNpGe>>) EXCEPT !.keys = ManifestKeys \ {k}] :
            k \in ManifestKeys}
    \cup {[GoodManifest(<<SrcMainRn>>, <<DepNpGe>>) EXCEPT !.type = "preset",
                                                          !.keys = ManifestKeys \ ks] :
            ks \in {{}, {"name"}, {"version"}, {"subtype"}}}
    \cup {[GoodManifest(<<SrcMainRn>>, <<DepNpGe>>) EXCEPT !.version = VersionBad]}

Max(S) == CHOOSE m \in S : \A y \in S : y <= m

\* The last index of the longest run of characters of class C that starts at
\* s[i] (i - 1 when s[i] is not in C).
RunEnd(s, i, C) == Max({k \in (i - 1)..Len(s) : \A j \in i..k : s[j] \in C})

dotted_number(v) ==
    /\ Len(v) >= 1
    /\ v[1] \in Digits /\ v[Len(v)] \in Digits
    /\ \A i \in DOMAIN v : v[i] \in Digits \cup {"."}
    /\ \A i \in 1..(Len(v) - 1) : ~(v[i] = "." /\ v[i + 1] = ".")

\* packaging.version.parse on the strings above: digits separated by single
\* dots parse, anything else raises InvalidVersion.
is_version(v) == dotted_number(v)

\* PlugIn._load_manifest on the snippet x, the manifest file holding m.
load_manifest(x, m) ==
    LET got == [x EXCEPT !.manifest = m, !.has_manifest = TRUE]
        dl == IF x.remote THEN <<ManifestYaml>> ELSE <<>>
    IN  IF "type" \notin m.keys
        THEN [raised |-> "KeyError", snip |-> got, downloads |-> dl, warns |-> <<>>]
        ELSE IF m.type # "plugin"
        THEN IF "name" \notin m.keys
             THEN [raised |-> "KeyError", snip |-> got, downloads |-> dl,
                   warns |-> <<>>]
             ELSE [raised |-> "none", snip |-> [got EXCEPT !.is_valid = "False"],
                   downloads |-> dl, warns |-> <<"UserWarning">>]
        ELSE [raised |-> "none", snip |-> got, downloads |-> dl, warns |-> <<>>]

\* PlugIn._set_params: the try block assigns version, name, type and is_valid
\* in turn; KeyError and AttributeError end it with is_valid = False, any
\* other exception leaves the constructor.
set_params(x) ==
    LET m == x.manifest
        done(y) == [y EXCEPT !.activated = IF y.remote THEN "False" ELSE "True"]
        invalid(y) == done([y EXCEPT !.is_valid = "False"])
    IN  IF ~x.has_manifest \/ "version" \notin m.keys
        THEN [raised |-> "none", snip |-> invalid(x)]
        ELSE IF ~is_version(m.version)
        THEN [raised |-> "InvalidVersion", snip |-> x]
        ELSE LET v == [x EXCEPT !.version = m.version]
             IN  IF "name" \notin m.keys
                 THEN [raised |-> "none", snip |-> invalid(v)]
                 ELSE LET n == [v EXCEPT !.name = m.name]
                      IN  IF "subtype" \notin m.keys
                          THEN [raised |-> "none", snip |-> invalid(n)]
                          ELSE [raised |-> "none",
                                snip |-> done([n EXCEPT !.type = m.subtype,
                                                       !.is_valid = "True"])]

\* PlugIn.__init__ and _content_parser (with _parse_files): a snippet built
\* from the files map, the manifest file (when there is one) holding m.
content_parser(remote, files, m) ==
    LET x == [NoSnippet EXCEPT !.state = "live", !.remote = remote, !.files = files]
    IN  IF Cardinality(files) = 0
        THEN [raised |-> "none", snip |-> [x EXCEPT !.is_valid = "False"],
              downloads |-> <<>>, warns |-> <<>>]
        ELSE LET l == IF ManifestYaml \in files THEN load_manifest(x, m)
                      ELSE [raised |-> "none", snip |-> x, downloads |-> <<>>,
                            warns |-> <<>>]
                 p == set_params(l.snip)
             IN  IF l.raised # "none" THEN l
                 ELSE [raised |-> p.raised, snip |-> p.snip,
                       downloads |-> l.downloads, warns |-> l.warns]

\* The files found under <dest>/<name>/ before any staging.
InitDisks == {{}, {[file |-> MainPy, content |-> "old"]}}

\* The configuration manager plays no part in a PlugIn's life.
NoManager ==
    /\ fs = [local |-> NoDir, global |-> NoDir,
             default |-> [exists |-> TRUE, hasFile |-> FALSE, text |-> <<>>,
                          sub |-> FALSE]]
    /\ config = safe_load(BundledText).doc
    /\ fetchers = {}
    /\ warned = <<>>
    /\ lastOp = NoOp
    /\ prevOp = NoOp

PInit ==
    /\ NoManager
    /\ snip = NoSnippet
    /\ data = {}
    /\ disk \in InitDisks
    /\ pcall = NoCall

\* PlugIn(contents, auth, remote): a constructor that raises leaves no object.
Construct ==
    /\ snip.state = "new"
    /\ \E remote \in BOOLEAN, files \in Contents, m \in Manifests :
          LET r == content_parser(remote, files, m)
          IN  /\ snip' = IF r.raised = "none" THEN r.snip
                         ELSE [r.snip EXCEPT !.state = "failed"]
              /\ pcall' = PCall("init", FALSE, FALSE, FALSE, FALSE, r.raised,
                                "None", r.downloads, <<>>, FALSE, r.warns)
    /\ UNCHANGED <<data, disk>>
    /\ UNCHANGED vars

\* A group that took no part in a match (None).
NoGroup == <<>>

\* '^' inside a pattern matches only where the string starts.
caret(k) == k = 1

\* re.match of (?P<filename>[a-zA-Z0-9_-]+.py)(:?\:(?P<target>^[a-zA-Z]{1}[a-zA-Z0-9]+))?
\* on s: the three groups of the match (filename, the colon group, target).
source_match(s) ==
    LET FileChars == Letters \cup Digits \cup {"_", "-"}
        cands == {n \in 1..(Len(s) - 3) :
                    /\ \A i \in 1..n : s[i] \in FileChars
                    /\ s[n + 2] = "p" /\ s[n + 3] = "y"}
    IN  IF cands = {} THEN [matched |-> FALSE, groups |-> <<>>]
        ELSE LET e == Max(cands) + 3
                 starts == {k \in {e + 2, e + 3} :
                              /\ \A j \in (e + 1)..(k - 1) : j <= Len(s) /\ s[j] = ":"
                              /\ k + 1 <= Len(s)
                              /\ caret(k)
                              /\ s[k] \in Letters
                              /\ s[k + 1] \in Letters \cup Digits}
             IN  IF starts = {}
                 THEN [matched |-> TRUE,
                       groups |-> <<SubSeq(s, 1, e), NoGroup, NoGroup>>]
                 ELSE LET k == Max(starts)
                          t == RunEnd(s, k + 1, Letters \cup Digits)
                      IN  [matched |-> TRUE,
                           groups |-> <<SubSeq(s, 1, e), SubSeq(s, e + 1, t),
                                        SubSeq(s, k, t)>>]

\* re.match of (\w+)\s*(>=|<=|==|!=|>|<)\s*([0-9]+(?:\.[0-9]+)*)? on s: the
\* groups (name, operator, version).
dependency_match(s) ==
    LET n == RunEnd(s, 1, Letters \cup Digits \cup {"_"})
        j == RunEnd(s, n + 1, {" "}) + 1
        two == j + 1 <= Len(s)
                 /\ SubSeq(s, j, j + 1) \in
                       {<<">", "=">>, <<"<", "=">>, <<"=", "=">>, <<"!", "=">>}
        one == j <= Len(s) /\ s[j] \in {">", "<"}
        o == IF two THEN j + 1 ELSE j
        k == RunEnd(s, o + 1, {" "}) + 1
        ends == {e \in k..Len(s) : dotted_number(SubSeq(s, k, e))}
    IN  IF n < 1 \/ ~(two \/ one) THEN [matched |-> FALSE, groups |-> <<>>]
        ELSE [matched |-> TRUE,
              groups |-> <<SubSeq(s, 1, n), SubSeq(s, j, o),
                           IF ends = {} THEN NoGroup ELSE SubSeq(s, k, Max(ends))>>]

\* The kinds of warning WarnRaiser emits.
download_failed == "DownloadFailedWarning"
file_exist == "FileExistsWarning"
invalid_approach == "InvalidApproachWarning"

\* The order a files map is iterated in.
FileOrder == <<ManifestYaml, MainPy, UtilPy, Readme>>

InOrder(files) == SelectSeq(FileOrder, LAMBDA f : f \in files)

Staged(f) == [file |-> f, content |-> "new"]

\* The outcome of an activate call that did nothing.
Idle(x, mem, dsk) ==
    [raised |-> "none", ret |-> "None", snip |-> x, data |-> mem, disk |-> dsk,
     downloads |-> <<>>, warns |-> <<>>]

to_write_all(files, dsk, force) == files

\* The files activate writes under dest: "plugin_file.exists() and not force"
\* passes a file over.
to_write(files, dsk, force) ==
    {f \in files : ~((\E d \in dsk : d.file = f) /\ ~force)}

\* The staging part of PlugIn.activate: to disk when dest is given (every
\* file, existing ones skipped unless forced), to memory otherwise (module
\* files only).
stage(x, mem, dsk, dest, force) ==
    LET files == IF dest THEN x.files ELSE get_module_files(x.files)
        written == to_write(files, dsk, force)
    IN  IF files = {} THEN Idle(x, mem, dsk)
        ELSE IF dest
        THEN IF x.name = "unset"
             THEN [Idle(x, mem, dsk) EXCEPT !.raised = "AttributeError"]
             ELSE [Idle(x, mem, dsk) EXCEPT
                     !.disk = {d \in dsk : d.file \notin written}
                                 \cup {Staged(f) : f \in written},
                     !.downloads = InOrder(written),
                     !.warns = [i \in DOMAIN InOrder(files \ written) |-> file_exist]]
        ELSE [Idle(x, mem, dsk) EXCEPT
                !.data = {d \in mem : d.file \notin files}
                            \cup {Staged(f) : f \in files},
                !.downloads = InOrder(files),
                !.snip = [x EXCEPT !.activated = "True"]]

activate_any_origin(x, mem, dsk, dest, force) == stage(x, mem, dsk, dest, force)

\* PlugIn.activate(dest, force); dest is TRUE for a disk destination and
\* FALSE for None (memory).
activate(x, mem, dsk, dest, force) ==
    IF ~x.remote
    THEN [Idle(x, mem, dsk) EXCEPT !.ret = "False", !.warns = <<download_failed>>]
    ELSE stage(x, mem, dsk, dest, force)

\* The symbols ModuleLoader finds in a staged file.
module_symbols(f) ==
    IF f = MainPy THEN {<<"r", "n">>} ELSE IF f = UtilPy THEN {<<"g", "n">>} ELSE {}

\* PlugIn._imported_object: the first source entry the pattern matches is
\* resolved; "filename, target = matched.groups()" needs exactly two groups.
imported_object(x, mem) ==
    LET src == x.manifest.source
        hits == {i \in DOMAIN src : source_match(src[i]).matched}
    IN  IF ~x.has_manifest THEN [raised |-> "AttributeError", obj |-> NoGroup]
        ELSE IF "source" \notin x.manifest.keys
        THEN [raised |-> "KeyError", obj |-> NoGroup]
        ELSE IF hits = {} THEN [raised |-> "none", obj |-> NoGroup]
        ELSE LET g == source_match(src[CHOOSE i \in hits : \A j \in hits : i <= j]).groups
                 have == IF x.remote THEN {d.file : d \in mem} ELSE x.files
             IN  IF Len(g) # 2 THEN [raised |-> "ValueError", obj |-> NoGroup]
                 ELSE IF g[1] \notin have THEN [raised |-> "KeyError", obj |-> NoGroup]
                 ELSE IF g[2] = NoGroup THEN [raised |-> "TypeError", obj |-> NoGroup]
                 ELSE IF g[2] \notin module_symbols(g[1])
                 THEN [raised |-> "AttributeError", obj |-> NoGroup]
                 ELSE [raised |-> "none", obj |-> g[2]]

resolve_dependencies_every_string(x) ==
    IF ~x.has_manifest
    THEN [raised |-> "AttributeError", snip |-> x, installs |-> <<>>]
    ELSE IF "dependencies" \notin x.manifest.keys
    THEN [raised |-> "KeyError", snip |-> x, installs |-> <<>>]
    ELSE [raised |-> "none", snip |-> [x EXCEPT !.deps_tested = TRUE],
          installs |-> [i \in DOMAIN x.manifest.dependencies |->
                          dependency_match(x.manifest.dependencies[i]).groups]]

\* PlugIn.resolve_dependencies: ModuleInstaller().install is called with the
\* groups of every dependency string the pattern matches, in list order.
resolve_dependencies(x) ==
    LET deps == x.manifest.dependencies
        hit == SelectSeq(deps, LAMBDA d : dependency_match(d).matched)
    IN  IF ~x.has_manifest
        THEN [raised |-> "AttributeError", snip |-> x, installs |-> <<>>]
        ELSE IF "dependencies" \notin x.manifest.keys
        THEN [raised |-> "KeyError", snip |-> x, installs |-> <<>>]
        ELSE [raised |-> "none", snip |-> [x EXCEPT !.deps_tested = TRUE],
              installs |-> [i \in DOMAIN hit |-> dependency_match(hit[i]).groups]]

\* PlugIn.set(skip_dependency_check, *args): fits tells whether the arguments
\* bind to the signature of the imported object.
set(x, mem, dsk, skip, fits) ==
    LET a == IF x.activated = "False" THEN activate(x, mem, dsk, FALSE, FALSE)
             ELSE [raised |-> "none", ret |-> "None", snip |-> x, data |-> mem,
                   disk |-> dsk, downloads |-> <<>>, warns |-> <<>>]
        o == imported_object(a.snip, a.data)
        r == IF ~a.snip.deps_tested /\ ~skip THEN resolve_dependencies(a.snip)
             ELSE [raised |-> "none", snip |-> a.snip, installs |-> <<>>]
        out(raised, y, installs, called) ==
            [raised |-> raised, ret |-> IF called THEN "result" ELSE "None",
             snip |-> y, data |-> a.data, disk |-> a.disk,
             downloads |-> a.downloads, installs |-> installs,
             called |-> called, warns |-> a.warns]
    IN  IF x.activated = "unset"
        THEN [raised |-> "AttributeError", ret |-> "None", snip |-> x, data |-> mem,
              disk |-> dsk, downloads |-> <<>>, installs |-> <<>>,
              called |-> FALSE, warns |-> <<>>]
        ELSE IF o.raised # "none" THEN out(o.raised, a.snip, <<>>, FALSE)
        ELSE IF o.obj = NoGroup THEN out("TypeError", a.snip, <<>>, FALSE)
        ELSE IF ~fits THEN out("ArgumentMismatch", a.snip, <<>>, FALSE)
        ELSE IF r.raised # "none" THEN out(r.raised, r.snip, r.installs, FALSE)
        ELSE out("none", r.snip, r.installs, TRUE)

Activate ==
    /\ snip.state = "live"
    /\ \E dest \in BOOLEAN, force \in BOOLEAN :
          LET r == activate(snip, data, disk, dest, force)
          IN  /\ snip' = r.snip
              /\ data' = r.data
              /\ disk' = r.disk
              /\ pcall' = PCall("activate", dest, force, FALSE, FALSE, r.raised,
                                r.ret, r.downloads, <<>>, FALSE, r.warns)
    /\ UNCHANGED vars

Set ==
    /\ snip.state = "live"
    /\ \E skip \in BOOLEAN, fits \in BOOLEAN :
          LET r == set(snip, data, disk, skip, fits)
          IN  /\ snip' = r.snip
              /\ data' = r.data
              /\ disk' = r.disk
              /\ pcall' = PCall("set", FALSE, FALSE, skip, fits, r.raised, r.ret,
                                r.downloads, r.installs, r.called, r.warns)
    /\ UNCHANGED vars

ResolveDependencies ==
    /\ snip.state = "live"
    /\ LET r == resolve_dependencies(snip)
       IN  /\ snip' = r.snip
           /\ pcall' = PCall("resolve_dependencies", FALSE, FALSE, FALSE, FALSE,
                             r.raised, "None", <<>>, r.installs, FALSE, <<>>)
    /\ UNCHANGED <<data, disk>>
    /\ UNCHANGED vars

\* The module files of a second remote PlugIn instance.
OtherModules == {{MainPy}}

\* activate() of a second remote instance: its loop assigns to the same
\* class-level _data dictionary.
ActivateOther ==
    /\ snip.state = "live"
    /\ \E files \in OtherModules :
          /\ data' = {d \in data : d.file \notin files}
                        \cup {[file |-> f, content |-> "other"] : f \in files}
          /\ pcall' = PCall("activate_other", FALSE, FALSE, FALSE, FALSE, "none",
                            "None", InOrder(files), <<>>, FALSE, <<>>)
    /\ UNCHANGED <<snip, disk>>
    /\ UNCHANGED vars

PNext ==
    \/ Construct
    \/ Activate
    \/ Set
    \/ ResolveDependencies
    \/ ActivateOther

PSpec == PInit /\ [][PNext]_allvars

Lifecycle == {"activate", "set", "resolve_dependencies"}

\* C13: on a snippet with is_valid = False, activate, set and
\* resolve_dependencies complete without raising and perform no download, no
\* dependency install and no entry-point call.
C13_InvalidSnippetIsInert ==
    (pcall.op \in Lifecycle /\ snip.is_valid = "False")
        => /\ pcall.raised = "none"
           /\ pcall.downloads = <<>>
           /\ pcall.installs = <<>>
           /\ ~pcall.called

\* C14: a constructed snippet whose manifest has a type other than 'plugin'
\* has is_valid = False, and its name and version are those of the manifest
\* when the manifest has these keys.
C14_TypeMismatchIsInvalid ==
    (/\ snip.state = "live"
     /\ snip.has_manifest
     /\ "type" \in snip.manifest.keys
     /\ snip.manifest.type # "plugin")
        => /\ snip.is_valid = "False"
           /\ "name" \in snip.manifest.keys => snip.name = snip.manifest.name
           /\ "version" \in snip.manifest.keys => snip.version = snip.manifest.version

RequiredKeys == {"type", "name", "version", "subtype"}

\* C15: construction never raises; with the manifest file absent, a required
\* key (type, name, version, subtype) missing or an unparsable version it
\* completes with is_valid = False.
C15_ConstructionNeverRaises ==
    pcall.op = "init"
        => /\ pcall.raised = "none"
           /\ snip.state = "live"
           /\ (\/ ~snip.has_manifest
               \/ ~(RequiredKeys \subseteq snip.manifest.keys)
               \/ ~is_version(snip.manifest.version))
                  => snip.is_valid = "False"

\* C16: activate on a non-remote snippet, whatever dest and force, returns
\* False, writes nothing to disk, downloads nothing and leaves the activated
\* flag and the in-memory buffer as they were.
C16_ActivateLocalRefuses ==
    [][(pcall'.op = "activate" /\ snip.state = "live" /\ ~snip.remote)
          => /\ pcall'.raised = "none"
             /\ pcall'.ret = "False"
             /\ pcall'.downloads = <<>>
             /\ disk' = disk
             /\ data' = data
             /\ snip'.activated = snip.activated]_allvars

C16_Witness ==
    /\ pcall.op = "activate"
    /\ ~snip.remote
    /\ snip.files # {}
    /\ snip.is_valid = "True"
    /\ pcall.dest /\ pcall.force
    /\ pcall.ret = "False"
    /\ disk # {}

\* A staged snippet whose manifest names entry points: the module file is in
\* place and the snippet has been activated.
Resolvable(src) ==
    /\ snip.state = "live"
    /\ snip.has_manifest
    /\ "source" \in snip.manifest.keys
    /\ snip.manifest.source = src
    /\ snip.activated = "True"
    /\ \A i \in DOMAIN src : \E f \in snip.files : SubSeq(src[i], 1, Len(f)) = f
    /\ snip.remote => \A f \in get_module_files(snip.files) : Staged(f) \in data

\* C17: with two source entries that each carry a symbol target, set binds
\* the symbol of the later entry and emits exactly one advisory notification
\* about the ambiguity.
C17_LaterTargetWinsWithOneNotice ==
    (pcall.op = "set" /\ Resolvable(<<SrcMainRn, SrcUtilGn>>))
        => /\ imported_object(snip, data).raised = "none"
           /\ imported_object(snip, data).obj = <<"g", "n">>
           /\ Len(SelectSeq(pcall.warns, LAMBDA w : w = invalid_approach)) = 1

\* C18: the source entry 'm.py:rn' is split into filename 'm.py' and target
\* 'rn', and resolution returns the attribute 'rn' of the module loaded from
\* the staged content of 'm.py'.
C18_SourceEntrySplits ==
    Resolvable(<<SrcMainRn>>)
        => /\ source_match(SrcMainRn).matched
           /\ source_match(SrcMainRn).groups = <<MainPy, <<"r", "n">>>>
           /\ imported_object(snip, data).raised = "none"
           /\ imported_object(snip, data).obj = <<"r", "n">>

\* C19: a set call whose arguments do not fit the entry point's signature
\* fails with the argument-mismatch error; the package-manager hook is not
\* invoked, the entry point is not run and the dependencies-resolved flag
\* keeps its value.
C19_MismatchFailsBeforeEffects ==
    [][(/\ pcall'.op = "set"
        /\ ~pcall'.fits
        /\ snip.state = "live"
        /\ snip.activated # "unset"
        /\ snip.is_valid = "True"
        /\ "source" \in snip.manifest.keys
        /\ snip.manifest.source = <<SrcMainRn>>
        /\ MainPy \in snip.files)
          => /\ pcall'.raised = "ArgumentMismatch"
             /\ pcall'.installs = <<>>
             /\ ~pcall'.called
             /\ snip'.deps_tested = snip.deps_tested]_allvars

Operators == {<<">", "=">>, <<"<", "=">>, <<"=", "=">>, <<"!", "=">>, <<">">>, <<"<">>}

Squeeze(d) == SelectSeq(d, LAMBDA c : c # " ")

\* d is a name, an operator and a version, in this order.
NameOpVersion(d) ==
    \E i \in 1..Len(Squeeze(d)), j \in 1..Len(Squeeze(d)) :
        /\ i < j
        /\ \A k \in 1..i : Squeeze(d)[k] \in Letters \cup Digits \cup {"_"}
        /\ SubSeq(Squeeze(d), i + 1, j) \in Operators
        /\ dotted_number(SubSeq(Squeeze(d), j + 1, Len(Squeeze(d))))

NoOperator(d) == \A i \in DOMAIN d : d[i] \notin {">", "<", "=", "!"}

\* calls are made for the strings of deps at the indexes I, in list order.
CallsFor(deps, calls, I) ==
    /\ Cardinality(I) = Len(calls)
    /\ \A i \in DOMAIN deps : NameOpVersion(deps[i]) => i \in I
    /\ \A i \in DOMAIN deps : NoOperator(deps[i]) => i \notin I
    /\ \A i \in I :
          LET c == calls[Cardinality({j \in I : j <= i})]
          IN  /\ Len(c) = 3
              /\ c[2] \in Operators
              /\ NameOpVersion(deps[i]) => Squeeze(deps[i]) = c[1] \o c[2] \o c[3]

C26_FailedReloadChangesNothing ==
    [][(lastOp'.op = "reload" /\ lastOp'.raised # "none")
          => /\ lastOp'.ret = "raise"
             /\ config' = config
             /\ fetchers' = fetchers]_allvars

\* A set call on a valid snippet whose entry point 'm.py:rn' is in place and
\* whose arguments fit: nothing in the claim's terms keeps it from running.
Invocable ==
    /\ snip.state = "live"
    /\ snip.is_valid = "True"
    /\ snip.activated # "unset"
    /\ "source" \in snip.manifest.keys
    /\ snip.manifest.source = <<SrcMainRn>>
    /\ "dependencies" \in snip.manifest.keys
    /\ MainPy \in snip.files

\* C21: over set calls, dependency resolution runs on the first call that
\* does not skip it and on no other call, and the dependencies-resolved flag
\* never goes from true back to false.
C21_ResolvesOnceOnFirstUnskipped ==
    [][/\ snip.deps_tested => snip'.deps_tested
       /\ (pcall'.op = "set" /\ pcall'.fits /\ Invocable)
             => IF ~pcall'.skip /\ ~snip.deps_tested
                THEN /\ snip'.deps_tested
                     /\ pcall'.installs = resolve_dependencies(snip).installs
                ELSE /\ pcall'.installs = <<>>
                     /\ snip'.deps_tested = snip.deps_tested]_allvars

\* C22: after activate with no destination on a valid remote snippet the
\* activated flag is true, whatever files the snippet was built from.
C22_MemoryActivationSetsFlag ==
    [][(/\ pcall'.op = "activate"
        /\ ~pcall'.dest
        /\ snip.state = "live"
        /\ snip.remote
        /\ snip.is_valid = "True")
          => /\ pcall'.raised = "none"
             /\ snip'.activated = "True"]_allvars

\* C23: once an activate call on a remote snippet has completed, to disk or
\* to memory, the set call that follows performs no download.
C23_NoDownloadAfterActivate ==
    [][(/\ pcall.op = "activate"
        /\ pcall.raised = "none"
        /\ snip.state = "live"
        /\ snip.remote
        /\ pcall'.op = "set")
          => pcall'.downloads = <<>>]_allvars

OnDisk(dsk, f) == {d \in dsk : d.file = f}

Downloaded(f) == \E i \in DOMAIN pcall'.downloads : pcall'.downloads[i] = f

\* C24: activate(dest, force) on a named remote snippet: without force a file
\* already under dest keeps its content and is not downloaded and an absent
\* file is written; with force every file of the snippet is rewritten from
\* the download. Files that are not the snippet's stay as they are.
C24_DiskStagingRespectsForce ==
    [][(/\ pcall'.op = "activate"
        /\ pcall'.dest
        /\ snip.state = "live"
        /\ snip.remote
        /\ snip.name # "unset")
          => /\ pcall'.raised = "none"
             /\ \A f \in snip.files :
                   IF OnDisk(disk, f) # {} /\ ~pcall'.force
                   THEN OnDisk(disk', f) = OnDisk(disk, f) /\ ~Downloaded(f)
                   ELSE OnDisk(disk', f) = {Staged(f)} /\ Downloaded(f)
             /\ \A d \in disk : d.file \notin snip.files => d \in disk'
             /\ \A d \in disk' : d.file \in snip.files \/ d \in disk]_allvars

C24_Witness ==
    /\ pcall.op = "activate"
    /\ pcall.dest /\ ~pcall.force
    /\ pcall.raised = "none"
    /\ snip.remote
    /\ MainPy \in snip.files
    /\ [file |-> MainPy, content |-> "old"] \in disk
    /\ Staged(ManifestYaml) \in disk
    /\ pcall.downloads = <<ManifestYaml>>
    /\ pcall.warns = <<file_exist>>

\* C25: activating another snippet into memory never changes the staged
\* content from which this snippet resolves its entry point, also when both
\* hold a file of the same name.
C25_StagedBytesAreOwned ==
    [][(/\ pcall'.op = "activate_other"
        /\ snip.state = "live"
        /\ snip.remote
        /\ snip.activated = "True")
          => \A f \in get_module_files(snip.files) :
                OnDisk(data', f) = OnDisk(data, f)]_allvars

====
